---------------------------- MODULE Spec2Model ----------------------------
(***************************************************************************)
(* Model of terminal_weather.c: the frame loop of main(), the SIGWINCH     *)
(* handler, the lightning bolt engine (bolt_create, bolt_update,           *)
(* bolt_draw) and the raindrop store.                                      *)
(*                                                                         *)
(* Time is in milliseconds (the source's doubles hold seconds: 0.002 s is  *)
(* 2, 0.015 s is 15, 0.8 s is 800).  CLOCK_MONOTONIC has no fixed origin:  *)
(* the model takes the current reading as the origin, so now_sec() is 0    *)
(* and a stored timestamp is minus its age; when time passes every stored  *)
(* timestamp moves back by that much (Elapse).  No comparison of the       *)
(* program tells two ages beyond SEGMENT_LIFESPAN apart, and a timestamp   *)
(* older than that is kept at SEGMENT_LIFESPAN + 1 ms.                     *)
(*                                                                         *)
(* A raindrop's row and speed are fixed-point tenths of a row (0.3 is 3,   *)
(* 1.0 is 10), and the cast (int)y is y \div 10.  A call of rand() is an   *)
(* input of the action that makes it, drawn from the range its use allows. *)
(* malloc hands out the lowest block that is not live.                     *)
(***************************************************************************)
EXTENDS Integers, Sequences, FiniteSets, TLC

VARIABLES
    pc,         \* position of main(): "top", "ack_flag", ..., "done"
    last,       \* main's `last`
    term,       \* the terminal's real size <<rows, cols>>, what getmaxyx reads
    g_rows, g_cols,
    g_resized,
    thunder,
    bolts,      \* BoltVec: [v |-> the array, n |-> count, cap |-> capacity]
    rain,       \* RainVec: the live prefix v[0..n-1] as a sequence of Raindrop
    heap,       \* heap[id] \in {"live", "freed"}: the segment blocks
    memfault,   \* "none", or the first invalid heap operation
    screen,     \* cells written since the last erase() or clear(): cell -> glyph
    hist        \* history of the run, read only by the properties

vars == <<pc, last, term, g_rows, g_cols, g_resized, thunder,
          bolts, rain, heap, memfault, screen, hist>>

---------------------------------------------------------------------------
\* Program constants (ms)
UPDATE_INTERVAL == 15
LIGHTNING_GROWTH_DELAY == 2
LIGHTNING_MAX_BRANCHES == 2
FORK_HORIZONTAL_SPREAD == 3
SEGMENT_LIFESPAN == 800
MAX_BOLTS == 3
SEG_CAP0 == 64
\* LIGHTNING_CHARS, indexed from 1: the fade runs from index 3 down to 1
LIGHTNING_CHARS == <<"*", "+", "#">>
\* ra_chars: bar, dot, grave accent
RA_CHARS == <<"|", ".", "grave">>

\* Bounds of the model: raindrops held at once in the frame loop (LoopRain) and
\* in fair weather (MaxRain), the rows of the create check, the values of rand().
LoopRain == 1
MaxRain == 2
CreateRows == 24
RandTop == 12

Max(a, b) == IF a >= b THEN a ELSE b

---------------------------------------------------------------------------
\* seg_push that puts the segment in front of the others.
seg_push_front(b, s) ==
    [b EXCEPT !.seg_cap = IF b.seg_cap # 0 THEN b.seg_cap ELSE SEG_CAP0,
              !.segs = <<s>> \o SubSeq(b.segs, 1, b.seg_count),
              !.seg_count = b.seg_count + 1]

\* seg_push: append at segs[seg_count], growing the capacity when full.
\* The block keeps its identity across realloc; a first push allocates it.
seg_push(b, s) ==
    LET cap == IF b.seg_count = b.seg_cap
               THEN (IF b.seg_cap # 0 THEN b.seg_cap * 2 ELSE SEG_CAP0)
               ELSE b.seg_cap
    IN [b EXCEPT !.seg_cap = cap,
                 !.segs = Append(SubSeq(b.segs, 1, b.seg_count), s),
                 !.seg_count = b.seg_count + 1]

\* bolt_create: r_len is rand(); t1, t2 the two readings of now_sec(); blk the
\* block malloc hands to the first seg_push.
min_len_of(max_y) == Max(max_y \div 2, 2)

\* max_len_of with <= for <: the larger of min_len + 1 and max_y - 2.
max_len_of_loose(max_y) ==
    IF max_y - 2 <= min_len_of(max_y) THEN min_len_of(max_y) + 1 ELSE max_y - 2

max_len_of(max_y) ==
    IF max_y - 2 < min_len_of(max_y) THEN min_len_of(max_y) + 1 ELSE max_y - 2

bolt_create(start_row, start_col, max_y, max_x, r_len, t1, t2, blk) ==
    LET min_len == min_len_of(max_y)
        max_len == max_len_of(max_y)
        b == [target_len |-> (r_len % (max_len - min_len + 1)) + min_len,
              growing |-> TRUE,
              last_growth |-> t1,
              max_y |-> max_y, max_x |-> max_x,
              blk |-> blk,
              segs |-> << >>, seg_count |-> 0, seg_cap |-> 0,
              trunk |-> 1, ticks |-> 0, forked |-> FALSE, branched |-> FALSE]
    IN seg_push(b, [y |-> start_row, x |-> start_col, birth |-> t2])


---------------------------------------------------------------------------
\* The rand() calls of one growth tick, each as the value its use keeps:
\*   branch: (double)rand()/RAND_MAX < LIGHTNING_BRANCH_CHANCE
\*   nb:     rand() % (LIGHTNING_MAX_BRANCHES + 1)
\*   off[i]: rand() % 5, the i-th iteration of the branch loop
\*   fork:   (double)rand()/RAND_MAX < FORK_CHANCE
\*   foff:   rand() % (2*FORK_HORIZONTAL_SPREAD + 1)
\*   fsign:  rand() % 2
\* A call the tick does not make is 0.
branches_of(d) == IF d.branch THEN d.nb + 1 ELSE 1

fork_off(d) ==
    LET off == d.foff - FORK_HORIZONTAL_SPREAD
    IN IF off = 0 THEN (IF d.fsign # 0 THEN -1 ELSE 1) ELSE off

\* The offsets drawn by a tick of k branches.
OffDraws(k) ==
    {[i \in 1..(LIGHTNING_MAX_BRANCHES + 1) |-> IF i <= k THEN f[i] ELSE 0] :
        f \in [1..k -> 0..4]}

BranchDraws ==
    {[branch |-> FALSE, nb |-> 0, off |-> o] : o \in OffDraws(1)}
    \cup UNION {{[branch |-> TRUE, nb |-> k - 1, off |-> o] : o \in OffDraws(k)} :
                  k \in 1..(LIGHTNING_MAX_BRANCHES + 1)}

ForkDraws ==
    {[fork |-> FALSE, foff |-> 0, fsign |-> 0]}
    \cup {[fork |-> TRUE, foff |-> f, fsign |-> 0] :
            f \in (0..(2 * FORK_HORIZONTAL_SPREAD)) \ {FORK_HORIZONTAL_SPREAD}}
    \cup {[fork |-> TRUE, foff |-> FORK_HORIZONTAL_SPREAD, fsign |-> g] : g \in 0..1}

\* Every draw of a tick.
AllDraws ==
    {[branch |-> b.branch, nb |-> b.nb, off |-> b.off,
      fork |-> f.fork, foff |-> f.foff, fsign |-> f.fsign] :
        b \in BranchDraws, f \in ForkDraws}

NoDraw == [branch |-> FALSE, nb |-> 0, off |-> [i \in 1..(LIGHTNING_MAX_BRANCHES + 1) |-> 0],
           fork |-> FALSE, foff |-> 0, fsign |-> 0]

\* clamp_x without the clamp at the right edge.
clamp_x_left_only(x, max_x) == IF x < 0 THEN 0 ELSE x

\* if (nx < 0) nx = 0; if (nx >= b->max_x) nx = b->max_x - 1;
clamp_x(x, max_x) ==
    LET x0 == IF x < 0 THEN 0 ELSE x
    IN IF x0 >= max_x THEN max_x - 1 ELSE x0

\* if (ny >= b->max_y) ny = b->max_y - 1;
clamp_y(y, max_y) == IF y >= max_y THEN max_y - 1 ELSE y

\* The branch loop of bolt_update, iterations i..branches-1 (i counts from 0).
\* st = [b, current_x, primary_next_x]
RECURSIVE branch_loop(_, _, _, _, _, _)
branch_loop(st, i, branches, lastseg, t, d) ==
    IF i >= branches THEN st
    ELSE LET nx == clamp_x(st.current_x + (d.off[i + 1] - 2), st.b.max_x)
             ny == clamp_y(lastseg.y + 1, st.b.max_y)
             b1 == seg_push(st.b, [y |-> ny, x |-> nx, birth |-> t])
         IN branch_loop([b |-> b1,
                         current_x |-> nx,
                         primary_next_x |-> IF i = 0 THEN nx ELSE st.primary_next_x],
                        i + 1, branches, lastseg, t, d)

\* The fork block of bolt_update.
fork_step(b, primary_next_x, lastseg, t, d) ==
    IF d.fork
    THEN LET fx == clamp_x(lastseg.x + fork_off(d), b.max_x)
             fy == clamp_y(lastseg.y + 1, b.max_y)
         IN IF fx # primary_next_x
            THEN seg_push(b, [y |-> fy, x |-> fx, birth |-> t])
            ELSE b
    ELSE b

\* The growth condition of a tick: seg_count < target_len && last.y < max_y - 1
can_grow(b) ==
    /\ b.seg_count < b.target_len
    /\ b.segs[b.seg_count].y < b.max_y - 1

\* if (!added || seg_count >= target_len || last.y >= max_y - 1) growing = false;
\* last is the copy of the last segment taken before the tick.
freeze_cond(added, b1, lastseg) ==
    \/ ~added
    \/ b1.seg_count >= b1.target_len
    \/ lastseg.y >= b1.max_y - 1

\* growth_due without the test of the growing flag.
growth_due_frozen_too(b, t) == (t - b.last_growth) >= LIGHTNING_GROWTH_DELAY

\* The time gate of a tick.
growth_due(b, t) == b.growing /\ (t - b.last_growth) >= LIGHTNING_GROWTH_DELAY

\* bolt_grow with both tests of seg_count against target_len off by one.
bolt_grow_late(b, t, d) ==
    IF growth_due(b, t)
    THEN LET lastseg == b.segs[b.seg_count]
             b0 == [b EXCEPT !.last_growth = t, !.ticks = b.ticks + 1]
             added == b.seg_count <= b.target_len /\ lastseg.y < b.max_y - 1
             b1 == IF added
                   THEN LET st == branch_loop([b |-> b0, current_x |-> lastseg.x,
                                               primary_next_x |-> lastseg.x],
                                              0, branches_of(d), lastseg, t, d)
                            f == fork_step(st.b, st.primary_next_x, lastseg, t, d)
                        IN [f EXCEPT !.trunk = b.trunk + 1,
                                     !.forked = f.seg_count > st.b.seg_count,
                                     !.branched = d.branch]
                   ELSE b0
         IN IF ~added \/ b1.seg_count > b1.target_len \/ lastseg.y >= b1.max_y - 1
            THEN [b1 EXCEPT !.growing = FALSE]
            ELSE b1
    ELSE b

\* The growth half of bolt_update at time t with draws d.  trunk counts the
\* segments of the primary path (the first one, and the first pushed by each
\* tick); ticks counts the ticks that passed the time gate; forked tells
\* whether the last segment pushed came from the fork block, branched whether
\* the branch chance fired in the last tick that pushed.
bolt_grow(b, t, d) ==
    IF growth_due(b, t)
    THEN LET lastseg == b.segs[b.seg_count]
             b0 == [b EXCEPT !.last_growth = t, !.ticks = b.ticks + 1]
             added == can_grow(b)
             b1 == IF added
                   THEN LET st == branch_loop([b |-> b0, current_x |-> lastseg.x,
                                               primary_next_x |-> lastseg.x],
                                              0, branches_of(d), lastseg, t, d)
                            f == fork_step(st.b, st.primary_next_x, lastseg, t, d)
                        IN [f EXCEPT !.trunk = b.trunk + 1,
                                     !.forked = f.seg_count > st.b.seg_count,
                                     !.branched = d.branch]
                   ELSE b0
         IN IF freeze_cond(added, b1, lastseg)
            THEN [b1 EXCEPT !.growing = FALSE]
            ELSE b1
    ELSE b

\* seg_alive with < for <=.
seg_alive_strict(s, t) == (t - s.birth) < SEGMENT_LIFESPAN

\* seg_alive without the test of the age.
seg_alive_ever(s, t) == TRUE

\* The liveness half: (now_sec() - segs[i].birth) <= SEGMENT_LIFESPAN for some i
seg_alive(s, t) == (t - s.birth) <= SEGMENT_LIFESPAN

any_alive(b, t) == \E i \in 1..b.seg_count : seg_alive(b.segs[i], t)

\* bolt_update: the bolt after the call and the value returned.
bolt_update(b, t, d) ==
    LET b1 == bolt_grow(b, t, d)
    IN [b |-> b1, alive |-> any_alive(b1, t)]

\* The draws a tick of b at time t can use from D: one when it makes no call.
draws_for(b, t, D) == IF growth_due(b, t) /\ can_grow(b) THEN D ELSE {NoDraw}


---------------------------------------------------------------------------
\* bolt_draw at time t onto scr (cell -> [ch, attr]); mvaddch overwrites.
\* fade_idx is char_idx: the index into LIGHTNING_CHARS, counted from 0.
fade_idx(age) ==
    LET c == IF age * 100 < 33 * SEGMENT_LIFESPAN THEN 2
             ELSE IF age * 100 < 66 * SEGMENT_LIFESPAN THEN 1
             ELSE 0
        max_idx == 2
    IN IF c < 0 THEN 0 ELSE IF c > max_idx THEN max_idx ELSE c

\* draw_skipped with >= for >.
draw_skipped_early(age) == age >= SEGMENT_LIFESPAN

\* if (age > SEGMENT_LIFESPAN) continue;
draw_skipped(age) == age > SEGMENT_LIFESPAN

on_screen(y, x, rows, cols) == y >= 0 /\ y < rows /\ x >= 0 /\ x < cols

mvaddch(scr, y, x, cell) ==
    [c \in (DOMAIN scr) \cup {<<y, x>>} |-> IF c = <<y, x>> THEN cell ELSE scr[c]]

RECURSIVE bolt_draw(_, _, _, _, _, _)
bolt_draw(b, i, t, rows, cols, scr) ==
    IF i > b.seg_count THEN scr
    ELSE LET age == t - b.segs[i].birth
             y == b.segs[i].y
             x == b.segs[i].x
         IN bolt_draw(b, i + 1, t, rows, cols,
                      IF ~draw_skipped(age) /\ on_screen(y, x, rows, cols)
                      THEN mvaddch(scr, y, x, [ch |-> LIGHTNING_CHARS[fade_idx(age) + 1],
                                               attr |-> "lightning"])
                      ELSE scr)

RECURSIVE draw_bolts(_, _, _, _, _, _)
draw_bolts(bv, i, t, rows, cols, scr) ==
    IF i > bv.n THEN scr
    ELSE draw_bolts(bv, i + 1, t, rows, cols, bolt_draw(bv.v[i], 1, t, rows, cols, scr))

\* The raindrop loop of the render block; speed < 0.8 is speed < 8 tenths.
RECURSIVE draw_rain(_, _, _, _, _, _)
draw_rain(rv, i, th, rows, cols, scr) ==
    IF i > Len(rv) THEN scr
    ELSE LET y == rv[i].y \div 10
             attr == IF th THEN "bold" ELSE IF rv[i].speed < 8 THEN "dim" ELSE "normal"
         IN draw_rain(rv, i + 1, th, rows, cols,
                      IF on_screen(y, rv[i].x, rows, cols)
                      THEN mvaddch(scr, y, rv[i].x, [ch |-> rv[i].ch, attr |-> attr])
                      ELSE scr)

NoScreen == [c \in {} |-> 0]

---------------------------------------------------------------------------
\* The array of a BoltVec.  Slots 1..n hold the bolts, each with the content
\* of its segment block; a slot past n keeps the bytes last stored there, of
\* which the model keeps the segs pointer (stale_slot).
stale_slot(b) == [blk |-> b.blk]

set_n(v, n) == [i \in DOMAIN v |-> IF i <= n THEN v[i] ELSE stale_slot(v[i])]

\* boltvec_push: v[n++] = b
boltvec_push(bv, b) ==
    [v |-> IF bv.n < Len(bv.v) THEN [bv.v EXCEPT ![bv.n + 1] = b] ELSE Append(bv.v, b),
     n |-> bv.n + 1,
     cap |-> IF bv.n = bv.cap THEN (IF bv.cap # 0 THEN bv.cap * 2 ELSE 64) ELSE bv.cap]

\* free(p) on the heap h with fault f: a block is released once.
heap_free(h, f, blk) ==
    IF blk \in DOMAIN h /\ h[blk] = "live"
    THEN [heap |-> [h EXCEPT ![blk] = "freed"], fault |-> f]
    ELSE [heap |-> h, fault |-> IF f = "none" THEN "double_free" ELSE f]

\* A read or write of a block: a fault when it is not live.
heap_use(h, f, blk) ==
    IF blk \in DOMAIN h /\ h[blk] = "live" THEN f
    ELSE IF f = "none" THEN "use_after_free" ELSE f

\* malloc: the lowest block that is not live.
heap_new(h) ==
    IF \E i \in DOMAIN h : h[i] # "live"
    THEN CHOOSE i \in DOMAIN h : h[i] # "live" /\ \A j \in 1..(i - 1) : h[j] = "live"
    ELSE Len(h) + 1

heap_alloc(h) ==
    LET blk == heap_new(h)
    IN IF blk \in DOMAIN h THEN [h EXCEPT ![blk] = "live"] ELSE Append(h, "live")

\* free_all over every slot of the array, the stale ones too.
RECURSIVE free_all_whole(_, _, _, _)
free_all_whole(bv, i, st, cause) ==
    IF i > Len(bv.v) THEN st
    ELSE LET r == heap_free(st.heap, st.fault, bv.v[i].blk)
         IN free_all_whole(bv, i + 1,
                           [heap |-> r.heap, fault |-> r.fault,
                            gone |-> Append(st.gone, [b |-> bv.v[i], cause |-> cause])],
                           cause)

\* for (i = 0; i < bolts.n; ++i) free(bolts.v[i].segs);  from slot i on
\* st = [heap, fault, gone]
RECURSIVE free_all(_, _, _, _)
free_all(bv, i, st, cause) ==
    IF i > bv.n THEN st
    ELSE LET r == heap_free(st.heap, st.fault, bv.v[i].blk)
         IN free_all(bv, i + 1,
                     [heap |-> r.heap, fault |-> r.fault,
                      gone |-> Append(st.gone, [b |-> bv.v[i], cause |-> cause])],
                     cause)

\* The update-and-compact loop of main, from slot i on with write index w.
\* st = [v, heap, fault, gone]; ds[i] are the draws of the i-th bolt_update.
compact_keep(v, w, b) == [v EXCEPT ![w + 1] = b]

RECURSIVE update_loop(_, _, _, _, _, _)
update_loop(st, n, i, w, t, ds) ==
    IF i > n THEN [v |-> st.v, n |-> w, heap |-> st.heap, fault |-> st.fault, gone |-> st.gone]
    ELSE LET f1 == heap_use(st.heap, st.fault, st.v[i].blk)
             r == bolt_update(st.v[i], t, ds[i])
             v1 == [st.v EXCEPT ![i] = r.b]
         IN IF r.alive
            THEN update_loop([st EXCEPT !.v = compact_keep(v1, w, v1[i]), !.fault = f1],
                             n, i + 1, w + 1, t, ds)
            ELSE LET fr == heap_free(st.heap, f1, v1[i].blk)
                 IN update_loop([v |-> v1, heap |-> fr.heap, fault |-> fr.fault,
                                 gone |-> Append(st.gone,
                                                 [b |-> v1[i], cause |-> "expired"])],
                                n, i + 1, w, t, ds)

\* retire_loop that keeps a raindrop without advancing the write index.
RECURSIVE retire_loop_stuck(_, _, _, _, _)
retire_loop_stuck(a, n, i, rw, rows) ==
    IF i > n THEN [v |-> a, n |-> rw]
    ELSE LET a1 == [a EXCEPT ![i].y = a[i].y + a[i].speed]
         IN IF (a1[i].y \div 10) < rows
            THEN retire_loop_stuck([a1 EXCEPT ![rw + 1] = a1[i]], n, i + 1, rw, rows)
            ELSE retire_loop_stuck(a1, n, i + 1, rw, rows)

\* The advance-and-retire loop of main over the array a of n raindrops, from
\* slot i on with write index rw; the result is the array and the new n.
RECURSIVE retire_loop(_, _, _, _, _)
retire_loop(a, n, i, rw, rows) ==
    IF i > n THEN [v |-> a, n |-> rw]
    ELSE LET a1 == [a EXCEPT ![i].y = a[i].y + a[i].speed]
         IN IF (a1[i].y \div 10) < rows
            THEN retire_loop([a1 EXCEPT ![rw + 1] = a1[i]], n, i + 1, rw + 1, rows)
            ELSE retire_loop(a1, n, i + 1, rw, rows)

advance_and_retire(rv, rows) ==
    LET r == retire_loop(rv, Len(rv), 1, 0, rows)
    IN SubSeq(r.v, 1, r.n)


---------------------------------------------------------------------------
\* Time.  now_sec() is the origin; d ms later a timestamp ts reads ts - d.
now_sec == 0

Horizon == SEGMENT_LIFESPAN + 1

shift(ts, d) == Max(ts - d, 0 - Horizon)

shift_bolt(b, d) ==
    [b EXCEPT !.last_growth = shift(@, d),
              !.segs = [i \in DOMAIN @ |-> [@[i] EXCEPT !.birth = shift(@, d)]]]

shift_bolts(bv, d) ==
    [bv EXCEPT !.v = [i \in DOMAIN @ |-> IF i <= bv.n THEN shift_bolt(@[i], d) ELSE @[i]]]

---------------------------------------------------------------------------
\* Inputs of the frame loop.
\* Terminal sizes <<rows, cols>> the window takes.
TermSizes == {<<2, 2>>, <<3, 4>>}

\* getch(): no key, quit keys, toggle keys, any other key.
Keys == {"none", "q", "Q", "ESC", "t", "T", "x"}

\* Time (ms) from the reading of `last` to the next reading of `now` (the work
\* of a frame), time by which nanosleep overshoots the request, and time that
\* passes between bolt_create and the bolt_update that follows it.
WorkTimes == {0, 400}
OverSleep == 400 - UPDATE_INTERVAL
CreateTimes == {0}

\* The moduli rand() is reduced by, and for each modulus k the values of
\* rand() the frame loop draws.
Moduli == 0..40

LoopRand == [k \in Moduli |-> {0}]

\* The growth draws of the frame loop: one segment straight down, or three
\* branches (+2, -2, 0) with a fork one column to the left.
LoopDraws ==
    {[NoDraw EXCEPT !.off = <<2, 0, 0>>],
     [branch |-> TRUE, nb |-> 2, off |-> <<4, 0, 2>>, fork |-> TRUE,
      foff |-> FORK_HORIZONTAL_SPREAD, fsign |-> 1]}

\* rand()/RAND_MAX of a raindrop's speed, in tenths of the speed range.
LoopSpeedDraws == {10}

\* hist: need_dims (need_clear) holds while a resize signal has not yet been
\* followed by a read of the size (a clear of the stores), and tops_dims
\* (tops_clear) counts the tests of g_resized made meanwhile; gone lists the
\* bolts the latest removing step took out of the store, as they were then;
\* rain_before is the raindrop vector as the advance-and-retire block of the
\* frame found it, until the frame is drawn; pace is the pacing block last
\* measured: dt, the time asked of sleep_sec, and the time the wait lasted.
NoPace == [dt |-> 0, asked |-> 0, waited |-> 0]

NoHist == [need_dims |-> FALSE, need_clear |-> FALSE, tops_dims |-> 0, tops_clear |-> 0,
           gone |-> << >>, rain_before |-> << >>, pace |-> NoPace]

Init ==
    /\ pc = "top"
    /\ last = now_sec
    /\ term \in TermSizes
    /\ g_rows = term[1]
    /\ g_cols = term[2]
    /\ g_resized = 0
    /\ thunder = FALSE
    /\ bolts = [v |-> << >>, n |-> 0, cap |-> 0]
    /\ rain = << >>
    /\ heap = << >>
    /\ memfault = "none"
    /\ screen = NoScreen
    /\ hist = NoHist

\* on_winch, run by the kernel when the window takes another size sz.
on_winch ==
    /\ pc \notin {"done", "crashed"}
    /\ \E sz \in TermSizes \ {term} : term' = sz
    /\ g_resized' = 1
    /\ hist' = [hist EXCEPT !.need_dims = TRUE, !.need_clear = TRUE,
                            !.tops_dims = IF hist.need_dims THEN @ ELSE 0,
                            !.tops_clear = IF hist.need_clear THEN @ ELSE 0]
    /\ UNCHANGED <<pc, last, g_rows, g_cols, thunder, bolts, rain, heap,
                   memfault, screen>>

\* while (1) { if (g_resized) {
Top ==
    /\ pc = "top"
    /\ pc' = IF g_resized # 0 THEN "ack_flag" ELSE "input"
    /\ hist' = [hist EXCEPT !.tops_dims = IF hist.need_dims THEN @ + 1 ELSE @,
                            !.tops_clear = IF hist.need_clear THEN @ + 1 ELSE @]
    /\ UNCHANGED <<last, term, g_rows, g_cols, g_resized, thunder, bolts, rain,
                   heap, memfault, screen>>

\* g_resized = 0;
AckFlag ==
    /\ pc = "ack_flag"
    /\ g_resized' = 0
    /\ pc' = "ack_dims"
    /\ UNCHANGED <<last, term, g_rows, g_cols, thunder, bolts, rain, heap,
                   memfault, screen, hist>>

\* endwin(); refresh(); getmaxyx(stdscr, g_rows, g_cols);
AckDims ==
    /\ pc = "ack_dims"
    /\ g_rows' = term[1]
    /\ g_cols' = term[2]
    /\ pc' = "ack_clear"
    /\ hist' = [hist EXCEPT !.need_dims = FALSE, !.tops_dims = 0]
    /\ UNCHANGED <<last, term, g_resized, thunder, bolts, rain, heap,
                   memfault, screen>>

\* AckClear without the loop over the bolts and bolts.n = 0.
AckClear_rain_only ==
    /\ pc = "ack_clear"
    /\ hist' = [hist EXCEPT !.need_clear = FALSE, !.tops_clear = 0, !.gone = << >>]
    /\ rain' = << >>
    /\ screen' = NoScreen
    /\ pc' = "input"
    /\ UNCHANGED <<last, term, g_rows, g_cols, g_resized, thunder, bolts, heap, memfault>>

\* AckClear with g_resized = 0 moved to the end of the block.
AckClear_late_reset ==
    /\ pc = "ack_clear"
    /\ LET r == free_all(bolts, 1, [heap |-> heap, fault |-> memfault, gone |-> << >>],
                         "resize")
       IN /\ heap' = r.heap
          /\ memfault' = r.fault
          /\ hist' = [hist EXCEPT !.need_clear = FALSE, !.tops_clear = 0, !.gone = r.gone]
    /\ bolts' = [bolts EXCEPT !.v = set_n(@, 0), !.n = 0]
    /\ rain' = << >>
    /\ screen' = NoScreen
    /\ g_resized' = 0
    /\ pc' = "input"
    /\ UNCHANGED <<last, term, g_rows, g_cols, thunder>>

\* clear(); rain.n = 0; free every bolt's segs; bolts.n = 0;
AckClear ==
    /\ pc = "ack_clear"
    /\ LET r == free_all(bolts, 1, [heap |-> heap, fault |-> memfault, gone |-> << >>],
                         "resize")
       IN /\ heap' = r.heap
          /\ memfault' = r.fault
          /\ hist' = [hist EXCEPT !.need_clear = FALSE, !.tops_clear = 0, !.gone = r.gone]
    /\ bolts' = [bolts EXCEPT !.v = set_n(@, 0), !.n = 0]
    /\ rain' = << >>
    /\ screen' = NoScreen
    /\ pc' = "input"
    /\ UNCHANGED <<last, term, g_rows, g_cols, g_resized, thunder>>

\* Input with a toggle that also empties the bolt vector.
Input_clearing ==
    /\ pc = "input"
    /\ \E ch \in Keys :
        IF ch \in {"q", "Q", "ESC"}
        THEN /\ pc' = "quit"
             /\ UNCHANGED <<thunder, screen, bolts>>
        ELSE /\ pc' = "pace"
             /\ thunder' = IF ch \in {"t", "T"} THEN ~thunder ELSE thunder
             /\ screen' = IF ch \in {"t", "T"} THEN NoScreen ELSE screen
             /\ bolts' = IF ch \in {"t", "T"}
                         THEN [bolts EXCEPT !.v = set_n(@, 0), !.n = 0]
                         ELSE bolts
    /\ UNCHANGED <<last, term, g_rows, g_cols, g_resized, rain, heap, memfault, hist>>

\* int ch = getch(); quit, or toggle thunder and clear()
Input ==
    /\ pc = "input"
    /\ \E ch \in Keys :
        IF ch \in {"q", "Q", "ESC"}
        THEN /\ pc' = "quit"
             /\ UNCHANGED <<thunder, screen>>
        ELSE /\ pc' = "pace"
             /\ thunder' = IF ch \in {"t", "T"} THEN ~thunder ELSE thunder
             /\ screen' = IF ch \in {"t", "T"} THEN NoScreen ELSE screen
    /\ UNCHANGED <<last, term, g_rows, g_cols, g_resized, bolts, rain, heap,
                   memfault, hist>>

\* sleep_sec(s): the time requested of nanosleep, none when s <= 0
sleep_sec(s) == IF s <= 0 THEN 0 ELSE s

\* now = now_sec(); dt = now - last; if (dt < UPDATE_INTERVAL) sleep; last = now_sec();
\* w is the time from the reading of `last` to this reading of `now`, no less
\* than what has passed already; a sleep lasts OverSleep longer than asked.
pace_time(lst, w) ==
    LET worked == Max(0, w - (now_sec - lst))
        dt == now_sec - shift(lst, worked)
        slept == IF dt < UPDATE_INTERVAL THEN sleep_sec(UPDATE_INTERVAL - dt) ELSE 0
    IN [dt |-> dt, slept |-> slept,
        total |-> worked + slept + (IF slept > 0 THEN OverSleep ELSE 0)]

Pace ==
    /\ pc = "pace"
    /\ \E w \in WorkTimes :
        LET p == pace_time(last, w)
        IN /\ bolts' = shift_bolts(bolts, p.total)
           /\ last' = now_sec
    /\ pc' = "spawn"
    /\ UNCHANGED <<term, g_rows, g_cols, g_resized, thunder, rain, heap,
                   memfault, screen, hist>>

\* The spawn block of main.  c is the chance draw, rc, rr, rl the three rand()
\* calls, e the time that passes after bolt_create.  A modulus by zero is
\* undefined: the process is killed by SIGFPE, or the operation yields some int.
UbValues == {0, 9}

mod_or_ub(r, k) == IF k = 0 THEN UbValues ELSE {r % k}

\* spawn_gate with <= for <.
spawn_gate_loose(th, n, c) == th /\ n <= MAX_BOLTS /\ c

\* thunder && bolts.n < 3 && chance
spawn_gate(th, n, c) == th /\ n < MAX_BOLTS /\ c

\* The moduli of the three rand() calls of a spawn.
col_mod(cols) == cols \div 2
row_mod(rows) == IF rows > 5 THEN rows \div 5 ELSE rows
len_mod(rows) == max_len_of(rows) - min_len_of(rows) + 1

\* The bolt a spawn makes, mc and mr being rand() % col_mod and rand() % row_mod.
spawn_bolt(rows, cols, mc, mr, rl, blk) ==
    LET start_col == (cols \div 4) + mc
        start_row == mr
    IN bolt_create(start_row, start_col, rows, cols, rl, now_sec, now_sec, blk)

Spawn(C, R, ES) ==
    /\ pc = "spawn"
    /\ \E c \in C :
        IF spawn_gate(thunder, bolts.n, c)
        THEN LET kc == col_mod(g_cols)
                 kr == row_mod(g_rows)
                 kl == len_mod(g_rows)
             IN \E crash \in {b \in BOOLEAN : b => (kc = 0 \/ kr = 0)} :
                IF crash
                THEN /\ pc' = "crashed"
                     /\ UNCHANGED <<last, bolts, heap>>
                ELSE \E rc \in R[kc], rr \in R[kr], rl \in R[kl], e \in ES :
                     \E mc \in mod_or_ub(rc, kc), mr \in mod_or_ub(rr, kr) :
                        LET b == spawn_bolt(g_rows, g_cols, mc, mr, rl, heap_new(heap))
                        IN /\ bolts' = shift_bolts(boltvec_push(bolts, b), e)
                           /\ heap' = heap_alloc(heap)
                           /\ last' = shift(last, e)
                           /\ pc' = "bolts"
        ELSE /\ pc' = "bolts"
             /\ UNCHANGED <<last, bolts, heap>>
    /\ UNCHANGED <<term, g_rows, g_cols, g_resized, thunder, rain, memfault,
                   screen, hist>>

\* The bolt loop of main: bolt_update on every bolt of bv with draws from D,
\* survivors compacted to the front, the others freed; then bolts.n = w.
RECURSIVE draw_seqs(_, _, _)
draw_seqs(bv, i, D) ==
    IF i > bv.n THEN {<< >>}
    ELSE {<<d>> \o rest : d \in draws_for(bv.v[i], now_sec, D),
                          rest \in draw_seqs(bv, i + 1, D)}

UpdateBolts(bv, D) ==
    \E ds \in draw_seqs(bv, 1, D) :
        /\ LET r == update_loop([v |-> bv.v, heap |-> heap, fault |-> memfault,
                                 gone |-> << >>], bv.n, 1, 0, now_sec, ds)
           IN /\ bolts' = [bv EXCEPT !.v = set_n(r.v, r.n), !.n = r.n]
              /\ heap' = r.heap
              /\ memfault' = r.fault
              /\ hist' = [hist EXCEPT !.gone = r.gone]

Bolts(D) ==
    /\ pc = "bolts"
    /\ UpdateBolts(bolts, D)
    /\ pc' = "rain_spawn"
    /\ UNCHANGED <<last, term, g_rows, g_cols, g_resized, thunder, rain, screen>>

\* The raindrop spawn block of main.  c is the chance draw, rn the rand() of
\* n_new, and each drop draws rx (column), ud (speed, tenths of the way from
\* min_speed to max_speed) and rc (glyph).  The vector holds cap at most.
new_drop(d, th, cols) ==
    LET min_speed == 3
        max_speed == IF th THEN 10 ELSE 6
    IN [x |-> d.rx % (IF cols > 1 THEN cols ELSE 1),
        y |-> 0,
        speed |-> min_speed + ((d.ud * (max_speed - min_speed)) \div 10),
        ch |-> RA_CHARS[(d.rc % 3) + 1]]

RECURSIVE push_drops(_, _, _, _, _)
push_drops(rv, ds, i, th, cols) ==
    IF i > Len(ds) THEN rv
    ELSE push_drops(Append(rv, new_drop(ds[i], th, cols)), ds, i + 1, th, cols)

RainSpawn(R, SD, cap) ==
    /\ pc = "rain_spawn"
    /\ \E c \in BOOLEAN :
        IF c
        THEN LET max_new == IF thunder THEN g_cols \div 8 ELSE g_cols \div 15
             IN \E rn \in R[IF max_new > 1 THEN max_new ELSE 1] :
                LET n_new == 1 + (IF max_new > 1 THEN rn % max_new ELSE 0)
                IN /\ Len(rain) + n_new <= cap
                   /\ \E ds \in [1..n_new -> [rx : R[IF g_cols > 1 THEN g_cols ELSE 1],
                                              ud : SD, rc : R[3]]] :
                        rain' = push_drops(rain, ds, 1, thunder, g_cols)
        ELSE rain' = rain
    /\ pc' = "rain_move"
    /\ UNCHANGED <<last, term, g_rows, g_cols, g_resized, thunder, bolts, heap,
                   memfault, screen, hist>>

\* The advance-and-retire block of main.
RainMove ==
    /\ pc = "rain_move"
    /\ rain' = advance_and_retire(rain, g_rows)
    /\ hist' = [hist EXCEPT !.rain_before = rain]
    /\ pc' = "render"
    /\ UNCHANGED <<last, term, g_rows, g_cols, g_resized, thunder, bolts, heap,
                   memfault, screen>>

\* erase(); the bolts, then the raindrops; doupdate(); refresh();
Render ==
    /\ pc = "render"
    /\ screen' = draw_rain(rain, 1, thunder, g_rows, g_cols,
                           draw_bolts(bolts, 1, now_sec, g_rows, g_cols, NoScreen))
    /\ hist' = [hist EXCEPT !.rain_before = << >>]
    /\ pc' = "top"
    /\ UNCHANGED <<last, term, g_rows, g_cols, g_resized, thunder, bolts, rain,
                   heap, memfault>>

\* After the loop: free every bolt's segs, the two arrays, endwin().
Quit ==
    /\ pc = "quit"
    /\ LET r == free_all(bolts, 1, [heap |-> heap, fault |-> memfault, gone |-> << >>],
                         "quit")
       IN /\ heap' = r.heap
          /\ memfault' = r.fault
          /\ hist' = [hist EXCEPT !.gone = r.gone]
    /\ pc' = "done"
    /\ UNCHANGED <<last, term, g_rows, g_cols, g_resized, thunder, bolts, rain,
                   screen>>

Next ==
    \/ on_winch
    \/ Top
    \/ AckFlag
    \/ AckDims
    \/ AckClear
    \/ Input
    \/ Pace
    \/ Spawn(BOOLEAN, LoopRand, CreateTimes)
    \/ Bolts(LoopDraws)
    \/ RainSpawn(LoopRand, LoopSpeedDraws, LoopRain)
    \/ RainMove
    \/ Render
    \/ Quit

Spec == Init /\ [][Next]_vars

---------------------------------------------------------------------------
\* One bolt from its creation to its removal: every draw of a growth tick,
\* every spawn position, updates 0 ms or 400 ms apart.
BoltSizes == {<<3, 3>>, <<6, 5>>}
TickTimes == {0, 400}
AllRand(k) == IF k > 0 THEN 0..(k - 1) ELSE {0}

OneBolt(b) == boltvec_push([v |-> << >>, n |-> 0, cap |-> 0], b)

InitBolt ==
    /\ pc = "bolts"
    /\ last = now_sec
    /\ term \in BoltSizes
    /\ g_rows = term[1]
    /\ g_cols = term[2]
    /\ g_resized = 0
    /\ thunder = TRUE
    /\ \E rc \in AllRand(col_mod(g_cols)), rr \in AllRand(row_mod(g_rows)),
          rl \in AllRand(len_mod(g_rows)) :
         bolts = OneBolt(spawn_bolt(g_rows, g_cols, rc, rr, rl, 1))
    /\ rain = << >>
    /\ heap = <<"live">>
    /\ memfault = "none"
    /\ screen = NoScreen
    /\ hist = NoHist

BoltTick ==
    /\ pc = "bolts"
    /\ bolts.n > 0
    /\ \E d \in TickTimes : UpdateBolts(shift_bolts(bolts, d), AllDraws)
    /\ UNCHANGED <<pc, last, term, g_rows, g_cols, g_resized, thunder, rain, screen>>

NextBolt == BoltTick

SpecBolt == InitBolt /\ [][NextBolt]_vars

\* One bolt with the draws of the frame loop, under a loop that keeps
\* iterating and a clock that advances: while the bolt is stored, an update
\* that comes later than the one before (FadeAdvance) keeps happening.
FadeTick ==
    /\ pc = "bolts"
    /\ bolts.n > 0
    /\ \E d \in TickTimes : UpdateBolts(shift_bolts(bolts, d), LoopDraws)
    /\ UNCHANGED <<pc, last, term, g_rows, g_cols, g_resized, thunder, rain, screen>>

FadeAdvance ==
    /\ pc = "bolts"
    /\ bolts.n > 0
    /\ \E d \in TickTimes \ {0} : UpdateBolts(shift_bolts(bolts, d), LoopDraws)
    /\ UNCHANGED <<pc, last, term, g_rows, g_cols, g_resized, thunder, rain, screen>>

NextFade == FadeTick

SpecFade == InitBolt /\ [][NextFade]_vars /\ WF_vars(FadeAdvance)

---------------------------------------------------------------------------
\* bolt_create alone, for every height up to CreateRows and every rand().
InitCreate ==
    /\ pc = "create"
    /\ last = now_sec
    /\ term \in {<<r, 80>> : r \in 0..CreateRows}
    /\ g_rows = term[1]
    /\ g_cols = term[2]
    /\ g_resized = 0
    /\ thunder = TRUE
    /\ bolts = [v |-> << >>, n |-> 0, cap |-> 0]
    /\ rain = << >>
    /\ heap = << >>
    /\ memfault = "none"
    /\ screen = NoScreen
    /\ hist = NoHist

CreateOnly ==
    /\ pc = "create"
    /\ \E rl \in 0..RandTop :
        bolts' = boltvec_push(bolts, bolt_create(0, g_cols \div 2, g_rows, g_cols, rl,
                                                 now_sec, now_sec, heap_new(heap)))
    /\ heap' = heap_alloc(heap)
    /\ pc' = "created"
    /\ UNCHANGED <<last, term, g_rows, g_cols, g_resized, thunder, rain, memfault,
                   screen, hist>>

NextCreate == CreateOnly

SpecCreate == InitCreate /\ [][NextCreate]_vars

---------------------------------------------------------------------------
\* bolt_draw alone, on a bolt of one segment of every age up to Horizon.
InitDraw ==
    /\ pc = "render"
    /\ last = now_sec
    /\ term = <<2, 2>>
    /\ g_rows = term[1]
    /\ g_cols = term[2]
    /\ g_resized = 0
    /\ thunder = TRUE
    /\ \E age \in 0..Horizon :
         bolts = shift_bolts(OneBolt(spawn_bolt(g_rows, g_cols, 0, 0, 0, 1)), age)
    /\ rain = << >>
    /\ heap = <<"live">>
    /\ memfault = "none"
    /\ screen = NoScreen
    /\ hist = NoHist

NextDraw == Render

SpecDraw == InitDraw /\ [][NextDraw]_vars

---------------------------------------------------------------------------
\* The frame loop in fair weather: the lightning chance never fires and the
\* window keeps its size; raindrops draw the ends of every range.
RainSizes == {<<2, 16>>}
RainRand == [k \in Moduli |-> {0, Max(k - 1, 0)}]
RainSpeedDraws == {0, 10}

InitRain ==
    /\ pc = "top"
    /\ last = now_sec
    /\ term \in RainSizes
    /\ g_rows = term[1]
    /\ g_cols = term[2]
    /\ g_resized = 0
    /\ thunder = FALSE
    /\ bolts = [v |-> << >>, n |-> 0, cap |-> 0]
    /\ rain = << >>
    /\ heap = << >>
    /\ memfault = "none"
    /\ screen = NoScreen
    /\ hist = NoHist

NextRain ==
    \/ Top
    \/ Input
    \/ Pace
    \/ Spawn({FALSE}, LoopRand, CreateTimes)
    \/ Bolts(LoopDraws)
    \/ RainSpawn(RainRand, RainSpeedDraws, MaxRain)
    \/ RainMove
    \/ Render
    \/ Quit

SpecRain == InitRain /\ [][NextRain]_vars

---------------------------------------------------------------------------
\* The frame loop with the pacing block timed in milliseconds.  The work of a
\* frame takes a time from PaceWork.  nanosleep(&req, NULL) lasts the time
\* asked and up to SleepLate more; or a signal handler runs during it and it
\* returns at once with EINTR, after SleepCut of the time asked at most, and
\* sleep_sec does not look at its result.
PaceWork == {0, 5, UPDATE_INTERVAL, 20}
SleepLate == {0, 3}
SleepCut(asked) == {0, asked - 1}

PaceFine ==
    /\ pc = "pace"
    /\ \E w \in PaceWork :
        LET p == pace_time(last, w)
            worked == p.total - p.slept - (IF p.slept > 0 THEN OverSleep ELSE 0)
        IN \E intr \in {b \in BOOLEAN : b => p.slept > 0} :
            \E waited \in IF intr THEN SleepCut(p.slept)
                           ELSE IF p.slept > 0 THEN {p.slept + o : o \in SleepLate}
                           ELSE {0} :
                /\ bolts' = shift_bolts(bolts, worked + waited)
                /\ IF intr
                   THEN /\ \E sz \in TermSizes \ {term} : term' = sz
                        /\ g_resized' = 1
                        /\ hist' = [hist EXCEPT
                                      !.need_dims = TRUE, !.need_clear = TRUE,
                                      !.tops_dims = IF hist.need_dims THEN @ ELSE 0,
                                      !.tops_clear = IF hist.need_clear THEN @ ELSE 0,
                                      !.pace = [dt |-> p.dt, asked |-> p.slept,
                                                waited |-> waited]]
                   ELSE /\ hist' = [hist EXCEPT !.pace = [dt |-> p.dt, asked |-> p.slept,
                                                          waited |-> waited]]
                        /\ UNCHANGED <<term, g_resized>>
    /\ last' = now_sec
    /\ pc' = "spawn"
    /\ UNCHANGED <<g_rows, g_cols, thunder, rain, heap, memfault, screen>>

NextPace ==
    \/ on_winch
    \/ Top
    \/ AckFlag
    \/ AckDims
    \/ AckClear
    \/ Input
    \/ PaceFine
    \/ Spawn({FALSE}, LoopRand, CreateTimes)
    \/ Bolts(LoopDraws)
    \/ RainSpawn(LoopRand, LoopSpeedDraws, LoopRain)
    \/ RainMove
    \/ Render
    \/ Quit

SpecPace == Init /\ [][NextPace]_vars

---------------------------------------------------------------------------
\* The spawn block alone with thunder on, for every window of 1..SpawnRows
\* rows and 1..SpawnCols columns and every value of its rand() calls.
SpawnRows == 7
SpawnCols == 5

AllRandOf == [k \in Moduli |-> AllRand(k)]

InitSpawn ==
    /\ pc = "spawn"
    /\ last = now_sec
    /\ term \in (1..SpawnRows) \X (1..SpawnCols)
    /\ g_rows = term[1]
    /\ g_cols = term[2]
    /\ g_resized = 0
    /\ thunder = TRUE
    /\ bolts = [v |-> << >>, n |-> 0, cap |-> 0]
    /\ rain = << >>
    /\ heap = << >>
    /\ memfault = "none"
    /\ screen = NoScreen
    /\ hist = NoHist

NextSpawn == Spawn(BOOLEAN, AllRandOf, CreateTimes)

SpecSpawn == InitSpawn /\ [][NextSpawn]_vars

---------------------------------------------------------------------------
\* One growing bolt on a screen of GrowRows rows, updated once per frame; a
\* frame lasts UPDATE_INTERVAL (on time) or twice that (late).
GrowRows == 8
FrameTimes == {UPDATE_INTERVAL, 2 * UPDATE_INTERVAL}

InitGrow ==
    /\ pc = "bolts"
    /\ last = now_sec
    /\ term = <<GrowRows, 5>>
    /\ g_rows = term[1]
    /\ g_cols = term[2]
    /\ g_resized = 0
    /\ thunder = TRUE
    /\ \E rc \in AllRand(col_mod(g_cols)), rr \in AllRand(row_mod(g_rows)),
          rl \in AllRand(len_mod(g_rows)) :
         bolts = OneBolt(spawn_bolt(g_rows, g_cols, rc, rr, rl, 1))
    /\ rain = << >>
    /\ heap = <<"live">>
    /\ memfault = "none"
    /\ screen = NoScreen
    /\ hist = NoHist

GrowTick ==
    /\ pc = "bolts"
    /\ bolts.n > 0
    /\ bolts.v[1].growing
    /\ \E d \in FrameTimes : UpdateBolts(shift_bolts(bolts, d), LoopDraws)
    /\ UNCHANGED <<pc, last, term, g_rows, g_cols, g_resized, thunder, rain, screen>>

NextGrow == GrowTick

SpecGrow == InitGrow /\ [][NextGrow]_vars

---------------------------------------------------------------------------
\* Properties.
StoreIdx == 1..bolts.n

\* The age of a segment now; the bolts of hist.gone are as they were when
\* they were removed, so this is their segments' age at that check.
Age(s) == now_sec - s.birth

AllExpired(b) == \A i \in 1..b.seg_count : Age(b.segs[i]) > 800

\* C1: the primary path of a bolt (its first segment and the first segment
\* pushed by each growth tick) never has more than target_len segments,
\* whatever bolt_update was called with; seg_count may exceed target_len.
C1_TrunkWithinTarget ==
    \A i \in StoreIdx : bolts.v[i].trunk <= bolts.v[i].target_len

C1_TrunkFull ==
    \E i \in StoreIdx :
        /\ bolts.v[i].ticks >= 2
        /\ bolts.v[i].trunk = bolts.v[i].target_len
        /\ bolts.v[i].seg_count > bolts.v[i].target_len

\* C2 as claimed: whenever a bolt leaves the store (in the bolt loop or in the
\* resize acknowledgment), every one of its segments is older than 0.8 s.
C2_RemovedOnlyWhenExpired ==
    \A k \in 1..Len(hist.gone) :
        hist.gone[k].cause \in {"expired", "resize"} => AllExpired(hist.gone[k].b)

\* C2 as amended: the bolt loop of a frame removes a bolt if and only if every
\* one of its segments is older than 0.8 s at the liveness check: a bolt it
\* removes has no segment of age <= 0.8 s, and a bolt it keeps has one.
C2_LoopRemovesIffExpired ==
    /\ \A k \in 1..Len(hist.gone) :
         hist.gone[k].cause = "expired" => AllExpired(hist.gone[k].b)
    /\ pc = "rain_spawn" => \A i \in StoreIdx : ~AllExpired(bolts.v[i])

C2_ExpiredBesideKept ==
    /\ pc = "rain_spawn"
    /\ Len(hist.gone) > 0
    /\ hist.gone[1].cause = "expired"
    /\ \E i \in StoreIdx : \E j \in 1..bolts.v[i].seg_count : Age(bolts.v[i].segs[j]) = 800

\* C3: after the advance-and-retire block the vector holds, once each and with
\* column, speed and glyph unchanged, exactly the raindrops whose row plus
\* speed has an integer part below the screen height, each at that new row.
Advanced(d) == [d EXCEPT !.y = d.y + d.speed]

Survives(d) == (Advanced(d).y \div 10) < g_rows

RECURSIVE Survivors(_)
Survivors(rv) ==
    IF rv = << >> THEN << >>
    ELSE (IF Survives(Head(rv)) THEN <<Advanced(Head(rv))>> ELSE << >>)
         \o Survivors(Tail(rv))

C3_AdvanceAndRetire ==
    pc = "render" =>
        /\ rain = Survivors(hist.rain_before)
        /\ \A i \in 1..Len(rain) : (rain[i].y \div 10) < g_rows

C3_RetiredBeforeSurvivor ==
    /\ pc = "render"
    /\ Len(hist.rain_before) = 2
    /\ ~Survives(hist.rain_before[1])
    /\ Len(rain) = 1
    /\ rain[1].x # hist.rain_before[1].x

\* C4: the acknowledgment of a resize empties both stores, and outside the
\* acknowledgment block every stored bolt has the bounds (g_rows, g_cols) and
\* a first segment inside them, every raindrop a column inside g_cols and,
\* once retired, a row inside g_rows; g_rows and g_cols are the size last
\* read, which is the window's size unless a signal is pending.
C4_DimsInv ==
    /\ pc # "ack_clear" =>
         /\ \A i \in StoreIdx :
              /\ bolts.v[i].max_y = g_rows
              /\ bolts.v[i].max_x = g_cols
              /\ bolts.v[i].segs[1].y \in 0..(g_rows - 1)
              /\ bolts.v[i].segs[1].x \in 0..(g_cols - 1)
         /\ \A i \in 1..Len(rain) : rain[i].x \in 0..(g_cols - 1)
    /\ pc = "render" => \A i \in 1..Len(rain) : (rain[i].y \div 10) < g_rows
    /\ ~hist.need_dims => <<g_rows, g_cols>> = term

C4_ResizeClearsAndAdopts ==
    /\ []C4_DimsInv
    /\ [][pc = "ack_clear" /\ pc' # pc => rain' = << >> /\ bolts'.n = 0]_vars

C4_NewBoltAfterResize ==
    /\ pc = "bolts"
    /\ bolts.n >= 1
    /\ Len(hist.gone) > 0
    /\ hist.gone[1].cause = "resize"
    /\ hist.gone[1].b.max_y # g_rows
    /\ bolts.v[1].max_y = g_rows

\* C5: g_resized becomes 1 only in a step of the handler and 0 only in the
\* step after the test at the top of the loop; while a signal has not been
\* followed by a read of the size (a clear of the stores) either the flag is
\* set or the loop is inside the acknowledgment block before that read (that
\* clear), and the loop tests the flag at most once in between.
C5_PendingInv ==
    /\ hist.need_dims => (g_resized = 1 \/ pc = "ack_dims")
    /\ hist.need_clear => (g_resized = 1 \/ pc \in {"ack_dims", "ack_clear"})
    /\ hist.tops_dims <= 1
    /\ hist.tops_clear <= 1

C5_NoLostResize ==
    /\ []C5_PendingInv
    /\ [][g_resized' # g_resized =>
            IF g_resized' = 1 THEN pc' = pc ELSE pc = "ack_flag"]_vars

C5_SignalDuringAck ==
    /\ pc = "ack_clear"
    /\ g_resized = 1
    /\ hist.need_dims
    /\ <<g_rows, g_cols>> # term

\* C6: no block is freed twice or used after its release; the blocks of the
\* stored bolts are live and distinct, no other block is live, and after the
\* quit path every block has been freed.
C6_SegsFreedOnce ==
    /\ memfault = "none"
    /\ pc # "done" =>
         /\ \A i \in StoreIdx : bolts.v[i].blk \in DOMAIN heap /\ heap[bolts.v[i].blk] = "live"
         /\ \A i, j \in StoreIdx : bolts.v[i].blk = bolts.v[j].blk => i = j
         /\ \A k \in DOMAIN heap :
              heap[k] = "live" => \E i \in StoreIdx : bolts.v[i].blk = k
    /\ pc = "done" => \A k \in DOMAIN heap : heap[k] = "freed"

C6_QuitWithStaleSlot ==
    /\ pc = "done"
    /\ Len(hist.gone) > 0
    /\ Len(bolts.v) > bolts.n + Len(hist.gone)

\* C7: a step that toggles thunder leaves both stores as they are; with
\* thunder off the bolt loop still ticks every bolt whose growth is due, and a
\* bolt leaves the store only there, with every segment older than 0.8 s, or
\* in the acknowledgment of a resize.
C7_Due(b) == b.growing /\ now_sec - b.last_growth >= 2

C7_Updated(b, nb) ==
    /\ nb.blk = b.blk
    /\ nb.seg_count >= b.seg_count
    /\ C7_Due(b) => nb.ticks = b.ticks + 1 /\ nb.last_growth = now_sec
    /\ ~C7_Due(b) => nb.ticks = b.ticks /\ nb.segs = b.segs

C7_ToggleKeepsStores ==
    [][/\ (pc = "input" /\ thunder' # thunder) => (bolts' = bolts /\ rain' = rain)
       /\ (pc = "bolts" /\ pc' # pc /\ ~thunder) =>
            \A i \in StoreIdx :
                \/ \E j \in 1..bolts'.n : C7_Updated(bolts.v[i], bolts'.v[j])
                \/ \E k \in 1..Len(hist'.gone) :
                     /\ C7_Updated(bolts.v[i], hist'.gone[k].b)
                     /\ AllExpired(hist'.gone[k].b)
       /\ (~thunder /\ bolts'.n < bolts.n) => pc \in {"bolts", "ack_clear"}]_vars

C7_GrownWithThunderOff ==
    /\ pc = "rain_spawn"
    /\ ~thunder
    /\ \E i \in StoreIdx :
         /\ bolts.v[i].ticks >= 1
         /\ bolts.v[i].last_growth = now_sec
         /\ bolts.v[i].seg_count >= 2

\* C8: the store never holds more than 3 bolts, and it grows only in the
\* spawn block, by one bolt, with thunder on and fewer than 3 bolts stored.
C8_AtMostThreeBolts ==
    /\ [](bolts.n <= 3)
    /\ [][bolts'.n > bolts.n =>
            /\ pc = "spawn"
            /\ pc' = "bolts"
            /\ thunder
            /\ bolts.n < 3
            /\ bolts'.n = bolts.n + 1]_vars

C8_FullStore ==
    /\ pc = "spawn"
    /\ thunder
    /\ bolts.n = 3

\* The target_len bolt_create gives for max_rows and the draw rl.
TargetLen(max_rows, rl) ==
    bolt_create(0, 0, max_rows, 80, rl, now_sec, now_sec, 1).target_len

MinLen(max_rows) == Max(2, max_rows \div 2)

\* C9 as claimed: target_len lies in [min_len, max(min_len + 1, max_rows - 2)]
\* and every value of that range is drawn by some rand().
C9_ClaimedRange ==
    LET lo == MinLen(g_rows)
        hi == Max(lo + 1, g_rows - 2)
    IN /\ pc = "created" => bolts.v[1].target_len \in lo..hi
       /\ \A v \in lo..hi : \E rl \in 0..RandTop : TargetLen(g_rows, rl) = v

\* C9 as amended: target_len lies in [min_len, max_len] where max_len is
\* max_rows - 2 when that is at least min_len and min_len + 1 otherwise, and
\* every value of that range is drawn by some rand(); 20 rows give 10..18.
C9_CodeRange ==
    LET lo == MinLen(g_rows)
        hi == IF g_rows - 2 >= lo THEN g_rows - 2 ELSE lo + 1
    IN /\ pc = "created" => bolts.v[1].target_len \in lo..hi
       /\ \A v \in lo..hi : \E rl \in 0..RandTop : TargetLen(g_rows, rl) = v
       /\ g_rows = 20 => lo = 10 /\ hi = 18

C9_FourRows ==
    /\ pc = "created"
    /\ g_rows = 4
    /\ bolts.v[1].target_len = 2

\* C10: a drawn segment shows '#' when its age is under 0.33 of 0.8 s, '+'
\* when under 0.66, '*' otherwise; a segment is drawn exactly when its age is
\* at most 0.8 s, which is when the liveness test of bolt_update counts it.
C10_Glyph(age) == IF age < 264 THEN "#" ELSE IF age < 528 THEN "+" ELSE "*"

FrameOrder ==
    {<<"top", "ack_flag">>, <<"ack_flag", "ack_dims">>, <<"ack_dims", "ack_clear">>,
     <<"ack_clear", "input">>, <<"top", "input">>, <<"input", "quit">>,
     <<"input", "pace">>, <<"pace", "spawn">>, <<"spawn", "bolts">>,
     <<"bolts", "rain_spawn">>, <<"rain_spawn", "rain_move">>,
     <<"rain_move", "render">>, <<"render", "top">>, <<"quit", "done">>}

\* C11 as claimed: when dt < UPDATE_INTERVAL the loop asks for a sleep of
\* UPDATE_INTERVAL - dt and waits that long (or longer, by the scheduler's
\* tolerance), otherwise it asks for none and does not wait; and an iteration
\* that does not quit runs every block once, in order.
C11_WaitedAsAsked ==
    pc = "spawn" =>
        LET p == hist.pace
        IN /\ p.asked >= 0
           /\ p.dt < 15 => (p.asked = 15 - p.dt /\ p.waited >= p.asked)
           /\ p.dt >= 15 => (p.asked = 0 /\ p.waited = 0)

C11_ExactPacing ==
    /\ []C11_WaitedAsAsked
    /\ [][pc' # pc => <<pc, pc'>> \in FrameOrder]_vars

\* C12 as claimed: for every window size the spawn block performs no
\* undefined operation, and the first segment of the bolt it makes has its
\* column in [cols/4, cols/4 + cols/2) and its row in [0, rows/5) when
\* rows > 5, in [0, rows) otherwise, inside the screen.
C12_SpawnDefinedAndInside ==
    /\ pc # "crashed"
    /\ (pc = "bolts" /\ bolts.n = 1) =>
         LET s == bolts.v[1].segs[1]
             lo == g_cols \div 4
         IN /\ s.x \in lo..(lo + (g_cols \div 2) - 1)
            /\ s.y \in 0..((IF g_rows > 5 THEN g_rows \div 5 ELSE g_rows) - 1)
            /\ s.x \in 0..(g_cols - 1)
            /\ s.y \in 0..(g_rows - 1)

\* A growth tick of the bolt in slot i: b before it, nb after it.
TickOf(b, nb) == nb.blk = b.blk /\ nb.ticks = b.ticks + 1

\* C13 as claimed: a bolt still growing after a growth tick got a segment in
\* that tick, has fewer than target_len segments, and the first segment the
\* tick pushed (the trunk's) is above the bottom row max_y - 1.
C13_FrozenAtBottom ==
    [][\A i \in 1..bolts'.n :
         (i <= bolts.n /\ TickOf(bolts.v[i], bolts'.v[i]) /\ bolts'.v[i].growing) =>
            /\ bolts'.v[i].seg_count > bolts.v[i].seg_count
            /\ bolts'.v[i].seg_count < bolts'.v[i].target_len
            /\ bolts'.v[i].segs[bolts.v[i].seg_count + 1].y < bolts'.v[i].max_y - 1]_vars

\* C14 as claimed: the first segment a growth tick pushes is one row below,
\* and within 2 columns of, the last primary or branch segment (the segment
\* before the last one when the tick before ended with a fork); and a fork
\* pushed by a tick is in another column than the tick's first segment.
C14_Dist(a, b) == IF a >= b THEN a - b ELSE b - a

C14_ForkNotPrevious ==
    [][\A i \in 1..bolts'.n :
         LET b == bolts.v[i]
             nb == bolts'.v[i]
         IN (i <= bolts.n /\ TickOf(b, nb) /\ nb.seg_count > b.seg_count) =>
              LET prev == IF b.forked THEN b.segs[b.seg_count - 1]
                          ELSE b.segs[b.seg_count]
                  first == nb.segs[b.seg_count + 1]
              IN /\ first.y = prev.y + 1
                 /\ C14_Dist(first.x, prev.x) <= 2
                 /\ nb.forked => nb.segs[nb.seg_count].x # first.x]_vars

\* C15 as claimed: a growth tick that pushes segments pushes 1 branch segment
\* when the branch chance did not fire and 2 or 3 when it fired, and with the
\* fork at most 4 segments in all.
C15_BranchCounts ==
    [][\A i \in 1..bolts'.n :
         LET b == bolts.v[i]
             nb == bolts'.v[i]
         IN (i <= bolts.n /\ TickOf(b, nb) /\ nb.seg_count > b.seg_count) =>
              LET pushed == nb.seg_count - b.seg_count
                  branches == pushed - (IF nb.forked THEN 1 ELSE 0)
              IN /\ ~nb.branched => branches = 1
                 /\ nb.branched => branches \in {2, 3}
                 /\ pushed <= 4]_vars

\* C16 as claimed: the number of growth ticks a growing bolt has made is
\* given by the time since its creation alone, one tick per growth delay
\* (0.002 s), however many frames that time was covered by.
C16_TicksByElapsedTime ==
    \A i \in StoreIdx :
        bolts.v[i].growing =>
            bolts.v[i].ticks = Age(bolts.v[i].segs[1]) \div LIGHTNING_GROWTH_DELAY

\* The rows and columns of the segments of b, in order.
Places(b) == [j \in 1..b.seg_count |-> <<b.segs[j].y, b.segs[j].x>>]

\* C17: a bolt whose growing flag is false keeps it false in every later
\* update, makes no further growth tick, and keeps its segments (count, rows,
\* columns) and its target_len as they are while it is stored.
C17_FrozenStaysFrozen ==
    [][\A i \in 1..bolts.n : \A j \in 1..bolts'.n :
         LET b == bolts.v[i]
             nb == bolts'.v[j]
         IN (nb.blk = b.blk /\ ~b.growing) =>
              /\ ~nb.growing
              /\ nb.ticks = b.ticks
              /\ nb.seg_count = b.seg_count
              /\ Places(nb) = Places(b)
              /\ nb.target_len = b.target_len]_vars

C17_FrozenAndFading ==
    \E i \in StoreIdx :
        /\ ~bolts.v[i].growing
        /\ bolts.v[i].last_growth < now_sec
        /\ bolts.v[i].seg_count >= 2
        /\ bolts.v[i].seg_count < bolts.v[i].target_len

\* C18: with updates that keep coming as the clock advances, the bolt is
\* eventually out of the store; the ticks that pushed segments number at most
\* target_len - 1, and a bolt left in the store by an update has a segment of
\* age at most 0.8 s, so it goes in the first update that finds none; the
\* bolt that went was frozen and had no segment of age 0.8 s or less.
C18_EventuallyRemoved ==
    /\ <>(bolts.n = 0)
    /\ [](\A i \in StoreIdx :
            /\ bolts.v[i].trunk - 1 <= bolts.v[i].target_len - 1
            /\ ~AllExpired(bolts.v[i]))
    /\ [](\A j \in 1..Len(hist.gone) :
            /\ ~hist.gone[j].b.growing
            /\ AllExpired(hist.gone[j].b))

C18_RemovedAtFullLength ==
    /\ bolts.n = 0
    /\ Len(hist.gone) = 1
    /\ hist.gone[1].cause = "expired"
    /\ ~hist.gone[1].b.growing
    /\ hist.gone[1].b.trunk = hist.gone[1].b.target_len
    /\ AllExpired(hist.gone[1].b)

\* The segments of b that bolt_draw does not skip for their age are all drawn.
C19_AllDrawn(b) ==
    LET scr == bolt_draw(b, 1, now_sec, g_rows, g_cols, NoScreen)
    IN \A j \in 1..b.seg_count :
         ~draw_skipped(Age(b.segs[j])) => <<b.segs[j].y, b.segs[j].x>> \in DOMAIN scr

\* C19: on a screen of at least 2 columns and 1 row, every segment of a
\* stored bolt has 0 <= row < max_y and 0 <= column < max_x, so bolt_draw's
\* bounds test passes for each; and a growth tick pushes segments only in the
\* row below the segment that was last before the tick, each branch segment
\* within 2 columns of the segment pushed before it (the first of the segment
\* that was last), a fork within 3 columns of the segment that was last.
C19_SegmentsInBounds ==
    /\ [](\A i \in StoreIdx :
            LET b == bolts.v[i]
            IN /\ \A j \in 1..b.seg_count :
                    /\ b.segs[j].y \in 0..(b.max_y - 1)
                    /\ b.segs[j].x \in 0..(b.max_x - 1)
                    /\ on_screen(b.segs[j].y, b.segs[j].x, g_rows, g_cols)
               /\ C19_AllDrawn(b))
    /\ [][\A i \in 1..bolts'.n :
            LET b == bolts.v[i]
                nb == bolts'.v[i]
            IN (i <= bolts.n /\ TickOf(b, nb)) =>
                 LET lastseg == b.segs[b.seg_count]
                     top == nb.seg_count - (IF nb.forked THEN 1 ELSE 0)
                 IN /\ \A j \in (b.seg_count + 1)..nb.seg_count :
                         nb.segs[j].y = lastseg.y + 1
                    /\ \A j \in (b.seg_count + 1)..top :
                         C14_Dist(nb.segs[j].x, nb.segs[j - 1].x) <= 2
                    /\ nb.forked =>
                         C14_Dist(nb.segs[nb.seg_count].x, lastseg.x)
                            <= FORK_HORIZONTAL_SPREAD]_vars

C19_ClampedAtBothEdges ==
    \E i \in StoreIdx :
        LET b == bolts.v[i]
        IN /\ b.ticks >= 1
           /\ b.forked
           /\ b.branched
           /\ b.max_x >= 2
           /\ \E j \in 2..b.seg_count : b.segs[j].x = 0
           /\ \E j \in 2..b.seg_count : b.segs[j].x = b.max_x - 1
           /\ b.segs[b.seg_count].y = b.max_y - 1

\* C20: a stored bolt always has at least one segment, so segs[seg_count - 1]
\* is in range; an update never lowers seg_count and leaves the row, the
\* column and the birth time of every segment it found as they were (the
\* birth is kept relative to the clock, so it moves back by the time d that
\* passed, the same for all); the segments it adds are born at the update.
C20_AppendOnly ==
    /\ [](\A i \in StoreIdx :
            /\ bolts.v[i].seg_count >= 1
            /\ bolts.v[i].seg_count <= bolts.v[i].seg_cap
            /\ Len(bolts.v[i].segs) = bolts.v[i].seg_count)
    /\ [][\A i \in 1..bolts.n : \A j \in 1..bolts'.n :
            LET b == bolts.v[i]
                nb == bolts'.v[j]
            IN nb.blk = b.blk =>
                 /\ nb.seg_count >= b.seg_count
                 /\ \A k \in 1..b.seg_count :
                      /\ nb.segs[k].y = b.segs[k].y
                      /\ nb.segs[k].x = b.segs[k].x
                 /\ \E d \in TickTimes : \A k \in 1..b.seg_count :
                      nb.segs[k].birth = shift(b.segs[k].birth, d)
                 /\ \A k \in (b.seg_count + 1)..nb.seg_count :
                      nb.segs[k].birth = now_sec]_vars

C20_ThreeBirths ==
    \E i \in StoreIdx :
        LET b == bolts.v[i]
        IN /\ b.seg_count >= 3
           /\ b.segs[1].birth < b.segs[2].birth
           /\ b.segs[2].birth < b.segs[b.seg_count].birth

=============================================================================
